---- MODULE Spec2Model ----
(***************************************************************************)
(* Local-Pilot: the App component (conversation, loading flag, operation   *)
(* previews, pending approval) and the backend command surface it drives   *)
(* through invoke (process_user_message, approve_tool_call).               *)
(*                                                                         *)
(* Text is modelled structurally: a string typed by the operator is a      *)
(* sequence of characters, a template literal is the tuple of its pieces,  *)
(* JSON text is the token sequence JSON.stringify produces.                *)
(***************************************************************************)
EXTENDS Integers, Sequences, FiniteSets

VARIABLES messages, inputValue, isLoading, operationPreviews, pendingApproval,
          inflight, now, backendPending, reply, rejected

(* messages .. pendingApproval are the component's useState cells.         *)
(* inflight: the invoke promises not yet settled, in the order issued.     *)
(* now: the millisecond clock read by Date.now() and new Date().           *)
(* backendPending: the tool call the model asked for and the backend is    *)
(* holding for approval; process_user_message does not return it.          *)
(* reply: the last answer of a read-only command (list_mcp_tools,          *)
(* search_local_files).                                                    *)
(* rejected: the ids of the approval requests the operator has rejected.   *)

vars == <<messages, inputValue, isLoading, operationPreviews, pendingApproval,
          inflight, now, backendPending, reply, rejected>>

(* ------------------------------ bounds --------------------------------- *)
MaxMsgs == 5
MaxClock == 1
MaxApproves == 2

(* ------------------------------ values --------------------------------- *)
Null == [null |-> TRUE]

(* what the operator may have typed: nothing, only whitespace, or text   *)
(* with whitespace around it                                             *)
Inputs == {<<>>, <<" ">>, <<" ", "a", " ">>}

IsWhitespace(c) == c = " "

RECURSIVE TrimStart(_)
TrimStart(s) ==
  IF s = <<>> THEN <<>>
  ELSE IF IsWhitespace(Head(s)) THEN TrimStart(Tail(s)) ELSE s

RECURSIVE TrimEnd(_)
TrimEnd(s) ==
  IF s = <<>> THEN <<>>
  ELSE IF IsWhitespace(s[Len(s)]) THEN TrimEnd(SubSeq(s, 1, Len(s) - 1)) ELSE s

Trim(s) == TrimEnd(TrimStart(s))

Digit(d) == <<"0", "1", "2", "3", "4", "5", "6", "7", "8", "9">>[d + 1]

RECURSIVE toString(_)
toString(n) ==
  IF n < 10 THEN <<Digit(n)>>
  ELSE Append(toString(n \div 10), Digit(n % 10))

RECURSIVE JSONMembers(_)
JSONMembers(obj) ==
  IF obj = <<>> THEN <<>>
  ELSE <<"\"", obj[1][1], "\"", ":", "\"", obj[1][2], "\"">>
       \o (IF Len(obj) > 1 THEN <<",">> ELSE <<>>)
       \o JSONMembers(Tail(obj))

JSONstringify(obj) == <<"{">> \o JSONMembers(obj) \o <<"}">>

(* --------------------------- backend values ---------------------------- *)
PENDING_APPROVAL == [type |-> "string", text |-> <<"PENDING_APPROVAL">>]

ProcessedMessage(message) ==
  [type |-> "string", text |-> <<"Processed message: \"", message, "\"">>]

NonStringResult == [type |-> "object", text |-> <<>>]

ToolCallExecuted(toolName) ==
  [type |-> "string", text |-> <<"Tool call ", toolName, " approved and executed">>]

ProcessErrors == {"ModelError"}

ApproveErrors == {"UnknownRequestError", "ToolExecutionFailure"}

ToolCalls ==
  { [name |-> "dangerous_operation",
     arguments |-> JSONstringify(<< <<"path", "/example/path">> >>)],
    [name |-> "shell_executor",
     arguments |-> JSONstringify(<< <<"command", "rm -rf /tmp/x">> >>)] }

(* ------------------------------- state --------------------------------- *)
Message(id, content, role, timestamp) ==
  [id |-> id, content |-> content, role |-> role, timestamp |-> timestamp]

Greeting == Message(<<"1">>, <<"GREETING">>, "assistant", 0)

OperationPreview(id, status) == [id |-> id, status |-> status]

ProcessCall(message) ==
  [cmd |-> "process_user_message", message |-> message,
   toolName |-> "", arguments |-> <<>>, request |-> <<>>]

ApproveCall(pa) ==
  [cmd |-> "approve_tool_call", message |-> <<>>,
   toolName |-> pa.toolName, arguments |-> JSONstringify(pa.arguments),
   request |-> pa.id]

RemoveAt(s, i) == SubSeq(s, 1, i - 1) \o SubSeq(s, i + 1, Len(s))

InFlight(cmd) == {i \in 1..Len(inflight) : inflight[i].cmd = cmd}

Budget == Len(messages) + Len(inflight)

Init ==
  /\ messages = <<Greeting>>
  /\ inputValue = <<>>
  /\ isLoading = FALSE
  /\ operationPreviews = <<OperationPreview("op1", "pending"),
                           OperationPreview("op2", "pending")>>
  /\ pendingApproval = Null
  /\ inflight = <<>>
  /\ now = 0
  /\ backendPending = Null
  /\ reply = Null
  /\ rejected = {}

(* ------------------------------ helpers -------------------------------- *)
(* updateOperationStatus without the test of the id *)
updateEveryOperationStatus(prev, id, status) ==
  [k \in 1..Len(prev) |-> [prev[k] EXCEPT !.status = status]]

updateOperationStatus(prev, id, status) ==
  [k \in 1..Len(prev) |->
     IF prev[k].id = id THEN [prev[k] EXCEPT !.status = status] ELSE prev[k]]

PrependMessage(prev, m) == <<m>> \o prev

AppendMessage(prev, m) == Append(prev, m)

FirstOperation(prev, status) ==
  IF Len(prev) > 0 THEN updateOperationStatus(prev, prev[1].id, status) ELSE prev

(* ------------------------------ actions -------------------------------- *)
Tick ==
  /\ now < MaxClock
  /\ now' = now + 1
  /\ UNCHANGED <<messages, inputValue, isLoading, operationPreviews,
                 pendingApproval, inflight, backendPending, reply, rejected>>

SetInputValue(v) ==
  /\ ~isLoading
  /\ v # inputValue
  /\ inputValue' = v
  /\ UNCHANGED <<messages, isLoading, operationPreviews, pendingApproval,
                 inflight, now, backendPending, reply, rejected>>

(* the guard of handleSubmit without the trim *)
SubmitAcceptedUntrimmed(input, loading) == ~(input = <<>> \/ loading)

SubmitAccepted(input, loading) == ~(Trim(input) = <<>> \/ loading)

HandleSubmit ==
  IF ~SubmitAccepted(inputValue, isLoading)
  THEN UNCHANGED vars
  ELSE /\ Budget + 2 <= MaxMsgs
       /\ messages' = AppendMessage(messages,
                             Message(toString(now), inputValue, "user", now))
       /\ inputValue' = <<>>
       /\ isLoading' = TRUE
       /\ operationPreviews' = FirstOperation(operationPreviews, "executing")
       /\ inflight' = Append(inflight, ProcessCall(inputValue))
       /\ UNCHANGED <<pendingApproval, now, backendPending, reply, rejected>>

(* invoke: what the backend may answer to a command.  mockInvoke is the    *)
(* browser fallback; the Tauri backend may also answer with a value that  *)
(* is not a string, or reject the promise.                                *)
mockInvoke(call) ==
  IF call.cmd = "process_user_message"
  THEN {PENDING_APPROVAL, ProcessedMessage(call.message)}
  ELSE {ToolCallExecuted(call.toolName)}

InvokeResolves(call) ==
  mockInvoke(call) \cup
    (IF call.cmd = "process_user_message" THEN {NonStringResult} ELSE {})

InvokeRejects(call) ==
  IF call.cmd = "process_user_message" THEN ProcessErrors ELSE ApproveErrors

NewPendingApproval(t) ==
  [id |-> toString(t),
   toolName |-> "dangerous_operation",
   arguments |-> << <<"path", "/example/path">> >>,
   description |-> <<"DANGEROUS_OPERATION_DELETE", "/example/path">>]

AiMessage(result, t) ==
  Message(toString(t + 1),
          <<"AI_REPLY", IF result.type = "string" THEN result.text ELSE <<"DONE">> >>,
          "assistant", t)

SubmitErrorMessage(err, t) ==
  Message(toString(t + 1), <<"ERROR", err>>, "assistant", t)

(* handleSubmit after the await with the else of the sentinel test lost *)
SubmitResolvesFallsThrough(i, result, tc) ==
  /\ inflight[i].cmd = "process_user_message"
  /\ result \in InvokeResolves(inflight[i])
  /\ IF result = PENDING_APPROVAL
     THEN /\ pendingApproval' = NewPendingApproval(now)
          /\ backendPending' = tc
     ELSE UNCHANGED <<pendingApproval, backendPending>>
  /\ messages' = AppendMessage(messages, AiMessage(result, now))
  /\ operationPreviews' = FirstOperation(operationPreviews, "completed")
  /\ isLoading' = FALSE
  /\ inflight' = RemoveAt(inflight, i)
  /\ UNCHANGED <<inputValue, now, reply, rejected>>

(* handleSubmit after the await, try branch and finally *)
SubmitResolves(i, result, tc) ==
  /\ inflight[i].cmd = "process_user_message"
  /\ result \in InvokeResolves(inflight[i])
  /\ IF result = PENDING_APPROVAL
     THEN /\ pendingApproval' = NewPendingApproval(now)
          /\ backendPending' = tc
          /\ UNCHANGED <<messages, operationPreviews>>
     ELSE /\ messages' = AppendMessage(messages, AiMessage(result, now))
          /\ operationPreviews' = FirstOperation(operationPreviews, "completed")
          /\ UNCHANGED <<pendingApproval, backendPending>>
  /\ isLoading' = FALSE
  /\ inflight' = RemoveAt(inflight, i)
  /\ UNCHANGED <<inputValue, now, reply, rejected>>

(* handleSubmit's catch branch also dismissing the confirmation card *)
SubmitRejectsClearsApproval(i, err) ==
  /\ inflight[i].cmd = "process_user_message"
  /\ err \in InvokeRejects(inflight[i])
  /\ messages' = AppendMessage(messages, SubmitErrorMessage(err, now))
  /\ operationPreviews' = FirstOperation(operationPreviews, "failed")
  /\ isLoading' = FALSE
  /\ pendingApproval' = Null
  /\ inflight' = RemoveAt(inflight, i)
  /\ UNCHANGED <<inputValue, now, backendPending, reply, rejected>>

(* handleSubmit's catch branch without the finally *)
SubmitRejectsNoFinally(i, err) ==
  /\ inflight[i].cmd = "process_user_message"
  /\ err \in InvokeRejects(inflight[i])
  /\ messages' = AppendMessage(messages, SubmitErrorMessage(err, now))
  /\ operationPreviews' = FirstOperation(operationPreviews, "failed")
  /\ inflight' = RemoveAt(inflight, i)
  /\ UNCHANGED <<inputValue, isLoading, pendingApproval, now, backendPending, reply, rejected>>

(* handleSubmit after the await, catch branch and finally *)
SubmitRejects(i, err) ==
  /\ inflight[i].cmd = "process_user_message"
  /\ err \in InvokeRejects(inflight[i])
  /\ messages' = AppendMessage(messages, SubmitErrorMessage(err, now))
  /\ operationPreviews' = FirstOperation(operationPreviews, "failed")
  /\ isLoading' = FALSE
  /\ inflight' = RemoveAt(inflight, i)
  /\ UNCHANGED <<inputValue, pendingApproval, now, backendPending, reply, rejected>>

(* handleApproveOperation up to the await *)
HandleApproveOperation ==
  IF pendingApproval = Null
  THEN UNCHANGED vars
  ELSE /\ Budget + 1 <= MaxMsgs
       /\ Cardinality(InFlight("approve_tool_call")) < MaxApproves
       /\ inflight' = Append(inflight, ApproveCall(pendingApproval))
       /\ UNCHANGED <<messages, inputValue, isLoading, operationPreviews,
                      pendingApproval, now, backendPending, reply, rejected>>

ResultMessage(result, t) ==
  Message(toString(t), <<"OPERATION_RESULT", result.text>>, "assistant", t)

ApproveErrorMessage(err, t) ==
  Message(toString(t), <<"APPROVE_FAILED", err>>, "assistant", t)

(* handleApproveOperation after the await, try branch *)
ApproveResolves(i, result) ==
  /\ inflight[i].cmd = "approve_tool_call"
  /\ result \in InvokeResolves(inflight[i])
  /\ messages' = AppendMessage(messages, ResultMessage(result, now))
  /\ pendingApproval' = Null
  /\ operationPreviews' = FirstOperation(operationPreviews, "completed")
  /\ backendPending' = Null
  /\ inflight' = RemoveAt(inflight, i)
  /\ UNCHANGED <<inputValue, isLoading, now, reply, rejected>>

(* handleApproveOperation's catch branch also dismissing the card *)
ApproveRejectsClearsApproval(i, err) ==
  /\ inflight[i].cmd = "approve_tool_call"
  /\ err \in InvokeRejects(inflight[i])
  /\ messages' = AppendMessage(messages, ApproveErrorMessage(err, now))
  /\ operationPreviews' = FirstOperation(operationPreviews, "failed")
  /\ pendingApproval' = Null
  /\ inflight' = RemoveAt(inflight, i)
  /\ UNCHANGED <<inputValue, isLoading, now, backendPending, reply, rejected>>

(* handleApproveOperation after the await, catch branch *)
ApproveRejects(i, err) ==
  /\ inflight[i].cmd = "approve_tool_call"
  /\ err \in InvokeRejects(inflight[i])
  /\ messages' = AppendMessage(messages, ApproveErrorMessage(err, now))
  /\ operationPreviews' = FirstOperation(operationPreviews, "failed")
  /\ inflight' = RemoveAt(inflight, i)
  /\ UNCHANGED <<inputValue, isLoading, pendingApproval, now, backendPending, reply, rejected>>

RejectMessage(pa, t) ==
  Message(toString(t),
          <<"OPERATION_REJECTED",
            IF pa # Null /\ pa.description # <<>> THEN pa.description
            ELSE <<"UNKNOWN_OPERATION">> >>,
          "assistant", t)

(* handleRejectOperation; its button is rendered only while pendingApproval *)
HandleRejectOperation ==
  /\ pendingApproval # Null
  /\ Budget + 1 <= MaxMsgs
  /\ messages' = AppendMessage(messages, RejectMessage(pendingApproval, now))
  /\ pendingApproval' = Null
  /\ operationPreviews' = FirstOperation(operationPreviews, "failed")
  /\ rejected' = rejected \cup {pendingApproval.id}
  /\ UNCHANGED <<inputValue, isLoading, inflight, now, backendPending, reply>>

(* ------------------------- read-only commands -------------------------- *)
FileInfo(id, name, path, size) ==
  [id |-> id, name |-> name, path |-> path, size |-> size]

MockFiles ==
  << FileInfo("1", <<"e", "x", "a", "m", "p", "l", "e", ".", "t", "x", "t">>,
              <<"/", "h", "o", "m", "e", "/", "u", "s", "e", "r", "/", "e", "x", "a", "m", "p", "l", "e", ".", "t", "x", "t">>, 1024),
     FileInfo("2", <<"d", "o", "c", "u", "m", "e", "n", "t", ".", "p", "d", "f">>,
              <<"/", "h", "o", "m", "e", "/", "u", "s", "e", "r", "/", "d", "o", "c", "u", "m", "e", "n", "t", "s", "/", "d", "o", "c", "u", "m", "e", "n", "t", ".", "p", "d", "f">>, 2048) >>

(* the mock answers every query with the same two entries *)
search_local_files(query) == MockFiles

Queries == {<<"P", "D", "F">>, <<"z", "z", "z">>}

Tool(name, description, input_schema) ==
  [name |-> name, description |-> description, input_schema |-> input_schema]

InputSchema(property, description) ==
  [type |-> "object",
   properties |-> << <<property, [type |-> "string", description |-> description]>> >>,
   required |-> <<property>>]

(* a registry whose listing order follows the clock *)
list_mcp_tools_unordered ==
  IF now % 2 = 0
  THEN << Tool("file_reader", "READ_LOCAL_FILE", InputSchema("path", "FILE_PATH")),
          Tool("shell_executor", "RUN_SHELL_COMMAND", InputSchema("command", "COMMAND")) >>
  ELSE << Tool("shell_executor", "RUN_SHELL_COMMAND", InputSchema("command", "COMMAND")),
          Tool("file_reader", "READ_LOCAL_FILE", InputSchema("path", "FILE_PATH")) >>

list_mcp_tools ==
  << Tool("file_reader", "READ_LOCAL_FILE", InputSchema("path", "FILE_PATH")),
     Tool("shell_executor", "RUN_SHELL_COMMAND", InputSchema("command", "COMMAND")) >>

Reply(cmd, query, value) == [cmd |-> cmd, query |-> query, value |-> value]

ListMcpTools ==
  /\ reply' = Reply("list_mcp_tools", <<>>, list_mcp_tools)
  /\ UNCHANGED <<messages, inputValue, isLoading, operationPreviews,
                 pendingApproval, inflight, now, backendPending, rejected>>

SearchLocalFiles(query) ==
  /\ reply' = Reply("search_local_files", query, search_local_files(query))
  /\ UNCHANGED <<messages, inputValue, isLoading, operationPreviews,
                 pendingApproval, inflight, now, backendPending, rejected>>

Respond ==
  \/ \E i \in 1..Len(inflight), tc \in ToolCalls :
       \E result \in InvokeResolves(inflight[i]) : SubmitResolves(i, result, tc)
  \/ \E i \in 1..Len(inflight) :
       \E err \in InvokeRejects(inflight[i]) : SubmitRejects(i, err)
  \/ \E i \in 1..Len(inflight) :
       \E result \in InvokeResolves(inflight[i]) : ApproveResolves(i, result)
  \/ \E i \in 1..Len(inflight) :
       \E err \in InvokeRejects(inflight[i]) : ApproveRejects(i, err)

Next ==
  \/ Tick
  \/ \E v \in Inputs : SetInputValue(v)
  \/ HandleSubmit
  \/ HandleApproveOperation
  \/ HandleRejectOperation
  \/ Respond
  \/ ListMcpTools
  \/ \E query \in Queries : SearchLocalFiles(query)

Spec == Init /\ [][Next]_vars

FairSpec == Spec /\ WF_vars(Respond)

(* ------------------------- step descriptions --------------------------- *)
Issued(cmd) ==
  /\ Len(inflight') = Len(inflight) + 1
  /\ inflight'[Len(inflight')].cmd = cmd

LastIssued == inflight'[Len(inflight')]

LastMessage == messages[Len(messages)]

Tag(m) == m.content[1]

HasMessage(tag) == \E k \in 1..Len(messages) : Tag(messages[k]) = tag

IsPrefix(s, t) == Len(s) <= Len(t) /\ SubSeq(t, 1, Len(s)) = s

ModelPending == InFlight("process_user_message") # {}

ApprovalResolved == pendingApproval # Null /\ pendingApproval' = Null

(* --------------------------------- C1 ---------------------------------- *)
(* C1: an approve_tool_call command is issued only while an approval       *)
(* request is pending and by the operator's approve action, and the tool   *)
(* name and argument payload it carries are exactly those of the tool call *)
(* that caused the approval request to be raised.                          *)
C1_ApproveCarriesRequestedCall ==
  [][Issued("approve_tool_call") =>
       /\ HandleApproveOperation
       /\ pendingApproval # Null
       /\ backendPending # Null
       /\ LastIssued.toolName = backendPending.name
       /\ LastIssued.arguments = backendPending.arguments]_vars

(* --------------------------------- C2 ---------------------------------- *)
(* C2: while an approval request is pending, handleSubmit never issues a   *)
(* process_user_message command.                                           *)
C2_NoModelTurnWhilePending ==
  [][pendingApproval # Null => ~Issued("process_user_message")]_vars

(* --------------------------------- C3 ---------------------------------- *)
(* C3: a PENDING_APPROVAL outcome arriving while a request is pending      *)
(* neither creates nor replaces the pending request; arriving while none   *)
(* is pending it creates one.                                              *)
C3_SecondRequestRefused ==
  [][\A i \in 1..Len(inflight) : \A tc \in ToolCalls :
       SubmitResolves(i, PENDING_APPROVAL, tc) =>
         IF pendingApproval # Null
         THEN pendingApproval' = pendingApproval
         ELSE pendingApproval' # Null]_vars

(* --------------------------------- C4 ---------------------------------- *)
(* C4: approve_tool_call answers with an execution result only when its    *)
(* tool name and arguments match the currently pending approval request.   *)
C4_ApproveSucceedsOnlyOnMatch ==
  [][\A i \in 1..Len(inflight) :
       (\E result \in InvokeResolves(inflight[i]) : ApproveResolves(i, result)) =>
         /\ pendingApproval # Null
         /\ inflight[i].toolName = pendingApproval.toolName
         /\ inflight[i].arguments = JSONstringify(pendingApproval.arguments)]_vars

(* --------------------------------- C5 ---------------------------------- *)
(* C5: once set, the pending-approval slot becomes empty only in a step of *)
(* the operator's reject or of the completion of the operator's approve.   *)
C5_NeverSilentlyExpires ==
  [][ApprovalResolved =>
       \/ HandleRejectOperation
       \/ \E i \in 1..Len(inflight) :
            \E result \in InvokeResolves(inflight[i]) : ApproveResolves(i, result)]_vars

C5_Witness ==
  /\ pendingApproval = Null
  /\ Len(messages) >= 5
  /\ Tag(LastMessage) = "OPERATION_REJECTED"
  /\ Tag(messages[Len(messages) - 1]) = "ERROR"
  /\ messages[Len(messages) - 2].role = "user"
  /\ messages[Len(messages) - 3].role = "user"

(* --------------------------------- C6 ---------------------------------- *)
(* C6: every resolution of an approval request (approved call executed,    *)
(* or rejected) leaves a model turn pending.                               *)
C6_ResolutionLoopsToModel ==
  [][ApprovalResolved => ModelPending']_vars

(* --------------------------------- C7 ---------------------------------- *)
(* C7: a failed process_user_message or approve_tool_call is folded into   *)
(* the conversation as one message, the loading flag returns to false, and *)
(* a later non-blank submission is accepted and forwarded.                 *)
C7_UsableAfterFailure ==
  /\ [][\A i \in 1..Len(inflight) :
          /\ (\E err \in ProcessErrors : SubmitRejects(i, err)) =>
               /\ Len(messages') = Len(messages) + 1
               /\ Tag(messages'[Len(messages')]) = "ERROR"
               /\ ~isLoading'
          /\ (\E err \in ApproveErrors : ApproveRejects(i, err)) =>
               /\ Len(messages') = Len(messages) + 1
               /\ Tag(messages'[Len(messages')]) = "APPROVE_FAILED"
               /\ isLoading' = isLoading]_vars
  /\ [][(HandleSubmit /\ ~isLoading /\ Trim(inputValue) # <<>>) =>
          /\ Issued("process_user_message")
          /\ LastIssued.message = inputValue]_vars
  /\ (isLoading ~> ~isLoading)

C7_Witness ==
  /\ Len(messages) >= 4
  /\ Tag(messages[Len(messages) - 1]) \in {"ERROR", "APPROVE_FAILED"}
  /\ LastMessage.role = "user"
  /\ ModelPending

(* --------------------------------- C8 ---------------------------------- *)
(* C8: at no time are two session-changing backend commands in flight.     *)
C8_Serialized == Len(inflight) <= 1

(* --------------------------------- C9 ---------------------------------- *)
(* C9: every step leaves the messages appended so far unchanged and in the *)
(* same order, adding new messages only at the end.                        *)
C9_AppendOnly == [][IsPrefix(messages, messages')]_vars

C9_Witness ==
  /\ Len(messages) >= 5
  /\ HasMessage("OPERATION_RESULT")
  /\ Tag(LastMessage) = "OPERATION_REJECTED"

(* --------------------------------- C10 --------------------------------- *)
(* C10: a completed process_user_message has exactly one of three          *)
(* outcomes: the sentinel raises an approval request and appends nothing;  *)
(* any other value appends exactly one assistant reply and raises nothing; *)
(* a failure appends exactly one error message and raises nothing.         *)
C10_ThreeOutcomes ==
  [][\A i \in 1..Len(inflight) :
       /\ \A result \in InvokeResolves(inflight[i]) : \A tc \in ToolCalls :
            SubmitResolves(i, result, tc) =>
              IF result = PENDING_APPROVAL
              THEN /\ pendingApproval' = NewPendingApproval(now)
                   /\ messages' = messages
              ELSE /\ Len(messages') = Len(messages) + 1
                   /\ IsPrefix(messages, messages')
                   /\ Tag(messages'[Len(messages')]) = "AI_REPLY"
                   /\ messages'[Len(messages')].role = "assistant"
                   /\ pendingApproval' = pendingApproval
       /\ \A err \in InvokeRejects(inflight[i]) :
            SubmitRejects(i, err) =>
              /\ Len(messages') = Len(messages) + 1
              /\ IsPrefix(messages, messages')
              /\ Tag(messages'[Len(messages')]) = "ERROR"
              /\ pendingApproval' = pendingApproval]_vars

C10_Witness ==
  /\ pendingApproval # Null
  /\ ~isLoading
  /\ HasMessage("AI_REPLY")

(* --------------------------------- C11 --------------------------------- *)
UpperCase == <<"A", "B", "C", "D", "E", "F", "G", "H", "I", "J", "K", "L", "M",
               "N", "O", "P", "Q", "R", "S", "T", "U", "V", "W", "X", "Y", "Z">>

LowerCase == <<"a", "b", "c", "d", "e", "f", "g", "h", "i", "j", "k", "l", "m",
               "n", "o", "p", "q", "r", "s", "t", "u", "v", "w", "x", "y", "z">>

ToLowerChar(c) ==
  IF \E k \in 1..Len(UpperCase) : UpperCase[k] = c
  THEN LowerCase[CHOOSE k \in 1..Len(UpperCase) : UpperCase[k] = c]
  ELSE c

ToLower(s) == [k \in 1..Len(s) |-> ToLowerChar(s[k])]

Contains(s, q) ==
  \E k \in 1..(Len(s) - Len(q) + 1) : SubSeq(s, k, k + Len(q) - 1) = q

ContainsIgnoreCase(s, q) == Contains(ToLower(s), ToLower(q))

IsReply(cmd) == reply # Null /\ reply.cmd = cmd

(* C11: search_local_files(query) returns only entries whose name or path  *)
(* contains the query, case-insensitively, and every entry whose name      *)
(* contains it; with no match the result is the empty sequence.            *)
C11_SearchMatchesQuery ==
  IsReply("search_local_files") =>
    /\ \A k \in 1..Len(reply.value) :
         \/ ContainsIgnoreCase(reply.value[k].name, reply.query)
         \/ ContainsIgnoreCase(reply.value[k].path, reply.query)
    /\ \A k \in 1..Len(MockFiles) :
         ContainsIgnoreCase(MockFiles[k].name, reply.query) =>
           \E j \in 1..Len(reply.value) : reply.value[j] = MockFiles[k]

(* --------------------------------- C12 --------------------------------- *)
(* C12: two answers of list_mcp_tools, whatever the session did between    *)
(* them, are the same ordered sequence of descriptors, and the names in an *)
(* answer are pairwise distinct.                                           *)
C12_ListingIdempotent ==
  /\ [][(IsReply("list_mcp_tools") /\ reply' # Null /\ reply'.cmd = "list_mcp_tools")
          => reply'.value = reply.value]_vars
  /\ [](IsReply("list_mcp_tools") =>
          \A j, k \in 1..Len(reply.value) :
            j # k => reply.value[j].name # reply.value[k].name)

C12_Witness ==
  /\ IsReply("list_mcp_tools")
  /\ Len(reply.value) = 2
  /\ now > 0
  /\ pendingApproval # Null
  /\ inflight # <<>>

(* --------------------------------- C13 --------------------------------- *)
(* C13: for one approval request there are never two approve_tool_call     *)
(* commands: an approve action while the first command is still in flight  *)
(* does not issue a second one.                                            *)
C13_ApproveIssuedOnce ==
  \A i, j \in InFlight("approve_tool_call") :
    i # j => inflight[i].request # inflight[j].request

(* --------------------------------- C14 --------------------------------- *)
(* C14: no execution result is appended for an approval request that the   *)
(* operator has rejected.                                                  *)
C14_NoResultAfterReject ==
  [][\A i \in 1..Len(inflight) :
       (\E result \in InvokeResolves(inflight[i]) : ApproveResolves(i, result)) =>
         inflight[i].request \notin rejected]_vars

(* --------------------------------- C15 --------------------------------- *)
(* C15: a failed approve_tool_call leaves the pending approval request as  *)
(* it is, appends exactly one error message and marks the first operation  *)
(* preview failed.                                                         *)
C15_FailedApproveKeepsRequest ==
  [][\A i \in 1..Len(inflight) :
       (\E err \in InvokeRejects(inflight[i]) : ApproveRejects(i, err)) =>
         /\ pendingApproval' = pendingApproval
         /\ Len(messages') = Len(messages) + 1
         /\ IsPrefix(messages, messages')
         /\ Tag(messages'[Len(messages')]) = "APPROVE_FAILED"
         /\ operationPreviews'[1].status = "failed"]_vars

C15_Witness ==
  /\ pendingApproval # Null
  /\ Tag(LastMessage) = "APPROVE_FAILED"
  /\ operationPreviews[1].status = "failed"
  /\ InFlight("approve_tool_call") = {}

(* --------------------------------- C16 --------------------------------- *)
(* C16: handleSubmit with an empty or whitespace-only input, or while the  *)
(* loading flag is set, changes nothing; and at most one                   *)
(* process_user_message is in flight.                                      *)
C16_SubmitNoOp ==
  /\ [][(HandleSubmit /\ (Trim(inputValue) = <<>> \/ isLoading)) =>
          UNCHANGED <<messages, inflight, isLoading, pendingApproval,
                      operationPreviews>>]_vars
  /\ [](Cardinality(InFlight("process_user_message")) <= 1)

C16_Witness ==
  /\ inputValue = <<" ">>
  /\ pendingApproval # Null
  /\ Len(messages) >= 3

(* --------------------------------- C17 --------------------------------- *)
(* C17: with no command in flight and no approval request pending the      *)
(* first operation preview is pending, completed or failed; the second     *)
(* operation preview keeps its status.                                     *)
C17_NotLeftExecuting ==
  /\ (inflight = <<>> /\ pendingApproval = Null) =>
       operationPreviews[1].status \in {"pending", "completed", "failed"}
  /\ operationPreviews[2] = OperationPreview("op2", "pending")

C17_Witness ==
  /\ inflight = <<>>
  /\ pendingApproval = Null
  /\ operationPreviews[1].status = "completed"
  /\ HasMessage("OPERATION_REJECTED")

====
